---- MODULE Spec2Model ----
(***************************************************************************)
(* Verification model of the devops-demo admin application:                *)
(*   - the cluster list view (views/cluster/list.vue): search form,        *)
(*     filteredData / total / tableData, pagination bindings, the row      *)
(*     selection, the delete confirmations and the notifications;          *)
(*   - the dashboard view (views/dashboard/index.vue): refreshData, the    *)
(*     auto-refresh interval, the chart handles and the teardown;          *)
(*   - the useTable composable: fetchData and its callers;                 *)
(*   - the cluster detail view (views/cluster/detail.vue): the record      *)
(*     resolver, the tabs and the gauge chart of the metrics tab.          *)
(* Strings whose characters matter (cluster names, the name filter) are     *)
(* sequences of one-character strings; the other strings are TLA+ strings. *)
(***************************************************************************)
EXTENDS Integers, Sequences, FiniteSets, TLC

(***************************************************************************)
(* Bounds of the model.                                                    *)
(***************************************************************************)
MaxRecords == 25
MaxPage == 4
MaxListTimers == 1
MaxDashRecords == 1
MaxPending == 2
MaxIntervals == 2
MaxResizes == 1
MaxInflight == 2
MaxTablePage == 2
MaxOpsRecords == 2
MaxMessages == 1
MaxDetailRecords == 2
MaxInitTimers == 2
MaxDetailTimers == 1

\* the records of a collection navigated from
MaxNavRecords == 2

\* the arguments of a run of disk-usage.sh
MaxArgs == 3

VARIABLES
    view,           \* the view component on screen: "list", "dashboard", "table", "detail"
    mockClusters,   \* the resource collection (mock/data), a sequence of records
    searchForm,     \* list.vue: ref({ name, status })
    currentPage,    \* list.vue: ref(1)
    pageSize,       \* list.vue: ref(10)
    listLoading,    \* list.vue: const loading = ref(false)
    listTimers,     \* list.vue: the pending setTimeout(..., 300) callbacks, oldest first
    selectedRows,   \* list.vue: ref([]), as the set of the ids of its rows
    dialog,         \* the ElMessageBox.confirm a list handler is suspended on
    messages,       \* the ElMessage notifications on screen, oldest first
    routerPath,     \* the location the router was last sent to
    dashPhase,      \* dashboard: "setup" (script run), "mounted", "unmounted"
    dashLoading,    \* dashboard: const loading = ref(false)
    timeRange,      \* dashboard: ref('1h')
    autoRefresh,    \* dashboard: ref(false)
    statistics,     \* dashboard: ref({ totalClusters, ..., networkTraffic })
    refreshTimer,   \* dashboard: let refreshTimer (0 is null, else an interval id)
    intervals,      \* the runtime's active setInterval timers (ids)
    intervalsMade,  \* the number of setInterval calls so far (the last id handed out)
    pendingRefresh, \* refreshData invocations suspended on their 400 ms setTimeout
    charts,         \* the chart handles and the chart library's instances
    resizeListener, \* handleResize is registered on window
    resizeCalls,    \* the number of handleResize invocations so far
    refreshRejected, \* dashboard: the promise of some refreshData call has rejected
    tblLoading,     \* useTable: const loading = ref(false)
    tblData,        \* useTable: const tableData = ref([])
    tblTotal,       \* useTable: const total = ref(0)
    pagination,     \* useTable: reactive({ page: 1, pageSize: 20 })
    tblSearchForm,  \* useTable: reactive({}), with the key the consumer binds (name)
    requests,       \* the fetchApi calls awaiting their response, oldest first
    lastParams,     \* the params of the fetchApi call issued last
    lastOutcome,    \* what became of that call: "none", "pending", "resolved", "rejected"
    routeId,        \* detail.vue: route.params.id
    activeTab,      \* detail.vue: ref('basic')
    detailPhase,    \* detail.vue: "setup" (script run), "mounted", "unmounted"
    detailLoading,  \* detail.vue: const loading = ref(false)
    detailTimers,   \* detail.vue: the number of pending 300 ms callbacks of handleRefresh
    initTimers,     \* detail.vue: the number of pending setTimeout(initMetricsChart, 100)
    metricsChart,   \* detail.vue: let metricsChart, and the library's instances
    detailResizeListener, \* detail.vue: handleResize is registered on window
    statusTag,      \* detail.vue: the el-tag rendered last, its status and its type
    argv,           \* disk-usage.sh: the arguments the script was started with
    positional,     \* disk-usage.sh: the positional parameters "$@" left
    shellEnv,       \* disk-usage.sh: the values of the shell variables
    scriptPc,       \* disk-usage.sh: "idle", "parsing", then "remote" or "local"
    formOptions,    \* useForm: which of createApi, updateApi, onSuccess the options hold
    formRef,        \* useForm: formRef.value is set (the el-form is mounted)
    isEdit,         \* useForm: const isEdit = ref(false)
    formLoading,    \* useForm: const loading = ref(false)
    submit          \* useForm: the position and the history of the handleSubmit call

listVars == <<mockClusters, searchForm, currentPage, pageSize, listLoading, listTimers,
              selectedRows, dialog>>

\* the application shell: the message layer and the router
shellVars == <<messages, routerPath>>

dashVars == <<dashPhase, dashLoading, timeRange, autoRefresh, statistics, refreshTimer,
              intervals, intervalsMade, pendingRefresh, charts, resizeListener, resizeCalls,
              refreshRejected>>

tableVars == <<tblLoading, tblData, tblTotal, pagination, tblSearchForm, requests,
               lastParams, lastOutcome>>

detailVars == <<routeId, activeTab, detailPhase, detailLoading, detailTimers, initTimers,
                metricsChart, detailResizeListener>>

\* the status tags of the detail view
tagVars == <<statusTag>>

\* the shell script disk-usage.sh
scriptVars == <<argv, positional, shellEnv, scriptPc>>

\* a form built on useForm
formVars == <<formOptions, formRef, isEdit, formLoading, submit>>

\* what the views of the cluster pages leave alone
otherVars == <<tagVars, scriptVars, formVars>>

vars == <<view, shellVars, listVars, dashVars, tableVars, detailVars, otherVars>>

Min(a, b) == IF a < b THEN a ELSE b
Max(a, b) == IF a > b THEN a ELSE b

(***************************************************************************)
(* Strings.                                                                *)
(***************************************************************************)
\* String.prototype.toLowerCase on one character of the alphabet
lowerChar(c) ==
    CASE c = "A" -> "a"
      [] c = "B" -> "b"
      [] OTHER -> c

\* String.prototype.toLowerCase
toLowerCase(s) == [i \in 1..Len(s) |-> lowerChar(s[i])]

\* String.prototype.includes: sub occurs in s at some offset
includes(s, sub) ==
    \E k \in 0..(Len(s) - Len(sub)) : SubSeq(s, k + 1, k + Len(sub)) = sub

slice_inclusiveEnd(arr, start, end) ==
    LET len == Len(arr)
        from == IF start < 0 THEN Max(len + start, 0) ELSE Min(start, len)
        to == IF end < 0 THEN Max(len + end, 0) ELSE Min(end + 1, len)
    IN  SubSeq(arr, from + 1, to)

\* Array.prototype.slice(start, end) for integer arguments
slice(arr, start, end) ==
    LET len == Len(arr)
        from == IF start < 0 THEN Max(len + start, 0) ELSE Min(start, len)
        to == IF end < 0 THEN Max(len + end, 0) ELSE Min(end, len)
    IN  SubSeq(arr, from + 1, to)

(***************************************************************************)
(* The resource collection.  mock/data is a static array of ClusterInfo;   *)
(* the model draws it from the sequences of up to MaxRecords records whose *)
(* records at odd and at even positions are of two freely chosen kinds.    *)
(* cpuUsage and memoryUsage are percentages in hundredths.                 *)
(***************************************************************************)
ClusterNames == {<<"x", "A", "b">>, <<"b">>}

ClusterKinds ==
    { [name |-> <<"x", "A", "b">>, status |-> "running", nodeCount |-> 3, podCount |-> 12,
       cpuUsage |-> 6854, memoryUsage |-> 7230],
      [name |-> <<"x", "A", "b">>, status |-> "error", nodeCount |-> 1, podCount |-> 0,
       cpuUsage |-> 0, memoryUsage |-> 1207],
      [name |-> <<"b">>, status |-> "running", nodeCount |-> 2, podCount |-> 5,
       cpuUsage |-> 9996, memoryUsage |-> 8149],
      [name |-> <<"b">>, status |-> "error", nodeCount |-> 0, podCount |-> 1,
       cpuUsage |-> 4500, memoryUsage |-> 3333] }

ClusterInfo(i, kind) ==
    [id |-> i, name |-> kind.name, status |-> kind.status,
     nodeCount |-> kind.nodeCount, podCount |-> kind.podCount,
     cpuUsage |-> kind.cpuUsage, memoryUsage |-> kind.memoryUsage]

Collections ==
    { [i \in 1..n |-> ClusterInfo(i, IF i % 2 = 1 THEN odd ELSE even)] :
        n \in 0..MaxRecords, odd \in ClusterKinds, even \in ClusterKinds }

\* the texts typed into the name input
FilterTexts == {<<>>, <<"a", "B">>, <<"B">>}

\* the values of the status select: cleared, or one of statusOptions
statusOptions == {"running", "stopped", "error", "pending"}

\* el-pagination :page-sizes
PageSizes == {5, 10, 20, 50}

(***************************************************************************)
(* list.vue: the computed values.                                          *)
(***************************************************************************)
nameMatches_caseSensitive(item, text) == includes(item.name, text)

\* the predicate of the first filter
nameMatches(item, text) == includes(toLowerCase(item.name), toLowerCase(text))

filteredData ==
    LET data0 == mockClusters
        data1 == IF searchForm.name # <<>>
                 THEN SelectSeq(data0, LAMBDA item : nameMatches(item, searchForm.name))
                 ELSE data0
        data2 == IF searchForm.status # ""
                 THEN SelectSeq(data1, LAMBDA item : item.status = searchForm.status)
                 ELSE data1
    IN  data2

total == Len(filteredData)

visiblePage_nextPage(page, size) ==
    LET start == page * size
    IN  slice(filteredData, start, start + size)

\* the body of tableData for a given page and page size
visiblePage(page, size) ==
    LET start == (page - 1) * size
    IN  slice(filteredData, start, start + size)

tableData == visiblePage(currentPage, pageSize)

(***************************************************************************)
(* list.vue: the handlers.                                                 *)
(***************************************************************************)
\* the ten digits
Digits == <<"0", "1", "2", "3", "4", "5", "6", "7", "8", "9">>

\* a natural number written in decimal
RECURSIVE decimal(_)
decimal(n) ==
    IF n < 10 THEN <<Digits[n + 1]>> ELSE decimal(n \div 10) \o <<Digits[(n % 10) + 1]>>

\* id strings with a character that delimits a part of a URL
ReservedIdTexts == << <<"a", "/", "b">>, <<"1", "?", "b">>, <<"a", "#", "b">> >>

\* ClusterInfo.id is a string. The records carry a number that names the string:
\* a position names its decimal numeral, the numbers after MaxRecords name the
\* strings of ReservedIdTexts.
idText(id) ==
    IF id <= MaxRecords THEN decimal(id) ELSE ReservedIdTexts[id - MaxRecords]

\* the path of the ClusterList route (router/index.ts)
ListPath == <<"/", "c", "l", "u", "s", "t", "e", "r">>

\* the static part of the path of the ClusterDetail route, '/cluster/detail/:id'
DetailPrefix == ListPath \o <<"/", "d", "e", "t", "a", "i", "l", "/">>

\* the location a detail view with route.params.id = text is shown at
detailLocation(text) == DetailPrefix \o text

\* the template literal `/cluster/detail/${row.id}`: the id is not escaped
DetailPath(id) == DetailPrefix \o idText(id)

\* the value of a route resolution that matches no route record
noMatch == [name |-> "none", params |-> [id |-> <<>>]]

\* String.prototype.indexOf for one character, 0 when absent
indexOf(s, ch) ==
    LET hits == {i \in 1..Len(s) : s[i] = ch}
    IN  IF hits = {} THEN 0 ELSE CHOOSE i \in hits : \A j \in hits : i <= j

\* the path of a pushed location: what precedes the first '?' or '#'
parseURL(location) ==
    LET q == indexOf(location, "?")
        h == indexOf(location, "#")
        cut == IF q = 0 THEN h ELSE IF h = 0 THEN q ELSE Min(q, h)
    IN  IF cut = 0 THEN location ELSE SubSeq(location, 1, cut - 1)

\* a path without its optional trailing slash
stripTrailingSlash(path) ==
    IF path # <<>> /\ path[Len(path)] = "/" THEN SubSeq(path, 1, Len(path) - 1) ELSE path

\* the route records of router/index.ts matched against a pushed location:
\* ':id' takes one non-empty segment, a segment holding no '/'
resolve(location) ==
    LET path == parseURL(location)
        param == stripTrailingSlash(SubSeq(path, Len(DetailPrefix) + 1, Len(path)))
    IN  IF stripTrailingSlash(path) = ListPath
        THEN [name |-> "ClusterList", params |-> [id |-> <<>>]]
        ELSE IF /\ Len(path) > Len(DetailPrefix)
                /\ SubSeq(path, 1, Len(DetailPrefix)) = DetailPrefix
                /\ param # <<>>
                /\ indexOf(param, "/") = 0
             THEN [name |-> "ClusterDetail", params |-> [id |-> param]]
             ELSE noMatch

\* no ElMessageBox is open
NoDialog == [kind |-> "none", row |-> 0, count |-> 0]

\* the notifications of the list view
msgRefreshed == [type |-> "success", text |-> "data refreshed"]

msgDeleted == [type |-> "success", text |-> "deleted (simulated)"]

msgBatchDeleted == [type |-> "success", text |-> "batch deleted (simulated)"]

msgSelectRows == [type |-> "warning", text |-> "select the data to delete"]

msgCreate == [type |-> "info", text |-> "create cluster (simulated)"]

\* ElMessage.success / warning / info: one more notification on screen
ElMessage(msg) ==
    /\ Len(messages) < MaxMessages
    /\ messages' = Append(messages, msg)

\* the ids of the rows of an array of records
RowIds(rows) == {rows[k].id : k \in 1..Len(rows)}

\* the list view is on screen and no modal dialog covers it
ListInteractive ==
    /\ view = "list"
    /\ routerPath = ListPath
    /\ dialog = NoDialog

ListInit ==
    /\ searchForm = [name |-> <<>>, status |-> ""]
    /\ currentPage = 1
    /\ pageSize = 10
    /\ listLoading = FALSE
    /\ listTimers = <<>>
    /\ selectedRows = {}
    /\ dialog = NoDialog

ShellInit ==
    /\ messages = <<>>
    /\ routerPath = ListPath

\* v-model="searchForm.name" on the el-input
InputName(text) ==
    /\ ListInteractive
    /\ UNCHANGED otherVars
    /\ UNCHANGED <<view, shellVars, dashVars, tableVars, detailVars>>
    /\ text # searchForm.name
    /\ searchForm' = [searchForm EXCEPT !.name = text]
    /\ UNCHANGED <<mockClusters, currentPage, pageSize, listLoading, listTimers,
                   selectedRows, dialog>>

\* v-model="searchForm.status" on the clearable el-select
SelectStatus(s) ==
    /\ ListInteractive
    /\ UNCHANGED otherVars
    /\ UNCHANGED <<view, shellVars, dashVars, tableVars, detailVars>>
    /\ s # searchForm.status
    /\ searchForm' = [searchForm EXCEPT !.status = s]
    /\ UNCHANGED <<mockClusters, currentPage, pageSize, listLoading, listTimers,
                   selectedRows, dialog>>

handleSearch_clearsSelection ==
    /\ ListInteractive
    /\ UNCHANGED otherVars
    /\ UNCHANGED <<view, shellVars, dashVars, tableVars, detailVars>>
    /\ Len(listTimers) < MaxListTimers
    /\ currentPage' = 1
    /\ listLoading' = TRUE
    /\ listTimers' = Append(listTimers, "search")
    /\ selectedRows' = {}
    /\ UNCHANGED <<mockClusters, searchForm, pageSize, dialog>>

\* the search button, and Enter in the name input
handleSearch ==
    /\ ListInteractive
    /\ UNCHANGED otherVars
    /\ UNCHANGED <<view, shellVars, dashVars, tableVars, detailVars>>
    /\ Len(listTimers) < MaxListTimers
    /\ currentPage' = 1
    /\ listLoading' = TRUE
    /\ listTimers' = Append(listTimers, "search")
    /\ UNCHANGED <<mockClusters, searchForm, pageSize, selectedRows, dialog>>

handleReset ==
    /\ ListInteractive
    /\ UNCHANGED otherVars
    /\ UNCHANGED <<view, shellVars, dashVars, tableVars, detailVars>>
    /\ searchForm' = [name |-> <<>>, status |-> ""]
    /\ currentPage' = 1
    /\ UNCHANGED <<mockClusters, pageSize, listLoading, listTimers, selectedRows, dialog>>

handleRefresh ==
    /\ ListInteractive
    /\ UNCHANGED otherVars
    /\ UNCHANGED <<view, shellVars, dashVars, tableVars, detailVars>>
    /\ Len(listTimers) < MaxListTimers
    /\ listLoading' = TRUE
    /\ listTimers' = Append(listTimers, "refresh")
    /\ UNCHANGED <<mockClusters, searchForm, currentPage, pageSize, selectedRows, dialog>>

\* the oldest pending 300 ms callback runs: the one of handleSearch sets
\* loading to false, the one of handleRefresh also shows a message
ListTimerFires ==
    /\ view = "list"
    /\ UNCHANGED otherVars
    /\ UNCHANGED <<view, dashVars, tableVars, detailVars>>
    /\ listTimers # <<>>
    /\ listLoading' = FALSE
    /\ listTimers' = Tail(listTimers)
    /\ IF Head(listTimers) = "refresh" THEN ElMessage(msgRefreshed) ELSE UNCHANGED messages
    /\ UNCHANGED <<mockClusters, searchForm, currentPage, pageSize, selectedRows, dialog,
                   routerPath>>

\* v-model:current-page of el-pagination
UpdateCurrentPage(p) ==
    /\ ListInteractive
    /\ UNCHANGED otherVars
    /\ UNCHANGED <<view, shellVars, dashVars, tableVars, detailVars>>
    /\ p # currentPage
    /\ currentPage' = p
    /\ UNCHANGED <<mockClusters, searchForm, pageSize, listLoading, listTimers,
                   selectedRows, dialog>>

\* v-model:page-size of el-pagination
UpdatePageSize(s) ==
    /\ ListInteractive
    /\ UNCHANGED otherVars
    /\ UNCHANGED <<view, shellVars, dashVars, tableVars, detailVars>>
    /\ s # pageSize
    /\ pageSize' = s
    /\ UNCHANGED <<mockClusters, searchForm, currentPage, listLoading, listTimers,
                   selectedRows, dialog>>

handleSelectionChange_accumulates(selection) ==
    /\ ListInteractive
    /\ UNCHANGED otherVars
    /\ UNCHANGED <<view, shellVars, dashVars, tableVars, detailVars>>
    /\ selection # selectedRows
    /\ selectedRows' = selectedRows \cup selection
    /\ UNCHANGED <<mockClusters, searchForm, currentPage, pageSize, listLoading, listTimers,
                   dialog>>

\* @selection-change of the el-table: the rows now ticked, among those shown
handleSelectionChange(selection) ==
    /\ ListInteractive
    /\ UNCHANGED otherVars
    /\ UNCHANGED <<view, shellVars, dashVars, tableVars, detailVars>>
    /\ selection # selectedRows
    /\ selectedRows' = selection
    /\ UNCHANGED <<mockClusters, searchForm, currentPage, pageSize, listLoading, listTimers,
                   dialog>>

\* the view button of a row
handleView(row) ==
    /\ ListInteractive
    /\ UNCHANGED otherVars
    /\ UNCHANGED <<view, dashVars, tableVars, detailVars>>
    /\ routerPath' = DetailPath(row.id)
    /\ UNCHANGED <<messages, mockClusters, searchForm, currentPage, pageSize, listLoading,
                   listTimers, selectedRows, dialog>>

\* the create button
handleCreate ==
    /\ ListInteractive
    /\ UNCHANGED otherVars
    /\ UNCHANGED <<view, dashVars, tableVars, detailVars>>
    /\ ElMessage(msgCreate)
    /\ UNCHANGED <<routerPath, mockClusters, searchForm, currentPage, pageSize, listLoading,
                   listTimers, selectedRows, dialog>>

handleDelete_noConfirm(row) ==
    /\ ListInteractive
    /\ UNCHANGED otherVars
    /\ UNCHANGED <<view, dashVars, tableVars, detailVars>>
    /\ ElMessage(msgDeleted)
    /\ UNCHANGED <<routerPath, mockClusters, searchForm, currentPage, pageSize, listLoading,
                   listTimers, selectedRows, dialog>>

\* handleDelete up to its await: the confirmation dialog for the row opens
handleDelete(row) ==
    /\ ListInteractive
    /\ UNCHANGED otherVars
    /\ UNCHANGED <<view, shellVars, dashVars, tableVars, detailVars>>
    /\ dialog' = [kind |-> "delete", row |-> row.id, count |-> 0]
    /\ UNCHANGED <<mockClusters, searchForm, currentPage, pageSize, listLoading, listTimers,
                   selectedRows>>

handleBatchDelete_noGuard ==
    /\ ListInteractive
    /\ UNCHANGED otherVars
    /\ UNCHANGED <<view, shellVars, dashVars, tableVars, detailVars>>
    /\ dialog' = [kind |-> "batch", row |-> 0, count |-> Cardinality(selectedRows)]
    /\ UNCHANGED <<mockClusters, searchForm, currentPage, pageSize, listLoading, listTimers,
                   selectedRows>>

\* handleBatchDelete up to its await: a warning when nothing is selected,
\* else the confirmation dialog for the selected rows opens
handleBatchDelete ==
    /\ ListInteractive
    /\ UNCHANGED otherVars
    /\ UNCHANGED <<view, dashVars, tableVars, detailVars>>
    /\ IF Cardinality(selectedRows) = 0
       THEN /\ ElMessage(msgSelectRows)
            /\ UNCHANGED dialog
       ELSE /\ dialog' = [kind |-> "batch", row |-> 0, count |-> Cardinality(selectedRows)]
            /\ UNCHANGED messages
    /\ UNCHANGED <<routerPath, mockClusters, searchForm, currentPage, pageSize, listLoading,
                   listTimers, selectedRows>>

ConfirmAccepted_removesRow ==
    /\ view = "list"
    /\ UNCHANGED otherVars
    /\ UNCHANGED <<view, dashVars, tableVars, detailVars>>
    /\ dialog # NoDialog
    /\ dialog' = NoDialog
    /\ ElMessage(IF dialog.kind = "delete" THEN msgDeleted ELSE msgBatchDeleted)
    /\ mockClusters' = SelectSeq(mockClusters, LAMBDA c : c.id # dialog.row)
    /\ UNCHANGED <<routerPath, searchForm, currentPage, pageSize, listLoading,
                   listTimers, selectedRows>>

\* the user confirms: handleDelete or handleBatchDelete resumes after its
\* await and shows its success message
ConfirmAccepted ==
    /\ view = "list"
    /\ UNCHANGED otherVars
    /\ UNCHANGED <<view, dashVars, tableVars, detailVars>>
    /\ dialog # NoDialog
    /\ dialog' = NoDialog
    /\ ElMessage(IF dialog.kind = "delete" THEN msgDeleted ELSE msgBatchDeleted)
    /\ UNCHANGED <<routerPath, mockClusters, searchForm, currentPage, pageSize, listLoading,
                   listTimers, selectedRows>>

\* the user cancels or closes the dialog: confirm rejects, the catch is empty
ConfirmDeclined ==
    /\ view = "list"
    /\ UNCHANGED otherVars
    /\ UNCHANGED <<view, shellVars, dashVars, tableVars, detailVars>>
    /\ dialog # NoDialog
    /\ dialog' = NoDialog
    /\ UNCHANGED <<mockClusters, searchForm, currentPage, pageSize, listLoading, listTimers,
                   selectedRows>>

EvaluateComputed_inPlace ==
    /\ view = "list"
    /\ UNCHANGED otherVars
    /\ mockClusters' = filteredData
    /\ UNCHANGED <<view, shellVars, dashVars, tableVars, detailVars>>
    /\ UNCHANGED <<searchForm, currentPage, pageSize, listLoading, listTimers,
                   selectedRows, dialog>>

\* a render evaluates the computed values filteredData, total and tableData:
\* the getters work on the copy [...mockClusters], on the arrays filter
\* returns and on the array slice returns, and assign nothing
EvaluateComputed ==
    /\ view = "list"
    /\ UNCHANGED otherVars
    /\ LET data == filteredData
           n == total
           rows == tableData
       IN  /\ Len(data) = n
           /\ Len(rows) <= n
           /\ mockClusters' = mockClusters
    /\ UNCHANGED <<view, shellVars, dashVars, tableVars, detailVars>>
    /\ UNCHANGED <<searchForm, currentPage, pageSize, listLoading, listTimers,
                   selectedRows, dialog>>

\* the oldest notification leaves the screen when its display time is over
MessageCloses ==
    /\ messages # <<>>
    /\ UNCHANGED otherVars
    /\ messages' = Tail(messages)
    /\ UNCHANGED <<view, routerPath, listVars, dashVars, tableVars, detailVars>>

\* :disabled of the batch delete button
batchDeleteDisabled == Cardinality(selectedRows) = 0

\* the search form and the pagination of the list view
ListNext ==
    \/ \E text \in FilterTexts : InputName(text)
    \/ \E s \in statusOptions \cup {""} : SelectStatus(s)
    \/ handleSearch
    \/ handleReset
    \/ ListTimerFires
    \/ \E p \in 1..MaxPage : UpdateCurrentPage(p)
    \/ \E s \in PageSizes : UpdatePageSize(s)

\* the number of pages el-pagination offers for :total and the page size
pageCount == Max(1, (total + pageSize - 1) \div pageSize)

\* the search form and the pagination, the user picking offered pages only
ListOfferedNext ==
    \/ \E text \in FilterTexts : InputName(text)
    \/ \E s \in statusOptions \cup {""} : SelectStatus(s)
    \/ handleSearch
    \/ handleReset
    \/ ListTimerFires
    \/ \E p \in 1..MaxPage : (p <= pageCount /\ UpdateCurrentPage(p))
    \/ \E s \in PageSizes : UpdatePageSize(s)

\* the inputs of the list view over the small collections
OpsTexts == {<<>>, <<"B">>}

OpsStatuses == {"", "running"}

OpsPages == {1, 2}

OpsPageSizes == {5, 10}

\* the whole list view: the form, the pagination, the toolbar, the table
ListOpsNext ==
    \/ \E text \in OpsTexts : InputName(text)
    \/ \E s \in OpsStatuses : SelectStatus(s)
    \/ handleSearch
    \/ handleReset
    \/ handleRefresh
    \/ ListTimerFires
    \/ \E p \in OpsPages : UpdateCurrentPage(p)
    \/ \E s \in OpsPageSizes : UpdatePageSize(s)
    \/ \E selection \in SUBSET RowIds(tableData) : handleSelectionChange(selection)
    \/ \E k \in 1..Len(tableData) : handleView(tableData[k])
    \/ handleCreate
    \/ \E k \in 1..Len(tableData) : handleDelete(tableData[k])
    \/ handleBatchDelete
    \/ ConfirmAccepted
    \/ ConfirmDeclined
    \/ EvaluateComputed
    \/ MessageCloses

(***************************************************************************)
(* dashboard/index.vue.                                                    *)
(***************************************************************************)
timeRangeOptions == {"1h", "6h", "24h", "7d", "30d"}

\* the render targets of the four charts, in the order initCharts visits them
ChartOrder == <<"cpu-chart", "memory-chart", "pod-chart", "cluster-chart">>

ChartIds == {ChartOrder[k] : k \in 1..Len(ChartOrder)}

RECURSIVE SumOver(_, _)
\* Array.prototype.reduce((sum, c) => sum + c[field], 0)
SumOver(arr, field) ==
    IF arr = <<>> THEN 0 ELSE arr[1][field] + SumOver(Tail(arr), field)

initialStatistics_allRunning ==
    [totalClusters |-> Len(mockClusters),
     runningClusters |-> Len(mockClusters),
     totalNodes |-> SumOver(mockClusters, "nodeCount"),
     totalPods |-> SumOver(mockClusters, "podCount"),
     cpuUsage |-> 685,
     memoryUsage |-> 723,
     diskUsage |-> 458,
     networkTraffic |-> 10240]

\* the statistics computed when the script runs (values in tenths)
initialStatistics ==
    [totalClusters |-> Len(mockClusters),
     runningClusters |-> Len(SelectSeq(mockClusters, LAMBDA c : c.status = "running")),
     totalNodes |-> SumOver(mockClusters, "nodeCount"),
     totalPods |-> SumOver(mockClusters, "podCount"),
     cpuUsage |-> 685,
     memoryUsage |-> 723,
     diskUsage |-> 458,
     networkTraffic |-> 10240]

\* the four draws Math.random() * width + base of one refreshData, in tenths:
\* all at the low end, or all at the high end of their ranges
UsageSamples ==
    { [cpuUsage |-> 500, memoryUsage |-> 600, diskUsage |-> 350, networkTraffic |-> 8000],
      [cpuUsage |-> 799, memoryUsage |-> 849, diskUsage |-> 549, networkTraffic |-> 12999] }

\* the chart library's outcome for one initCharts run: no failure, or a throw
\* in echarts.init or in setOption of one chart
ChartFailures ==
    {[at |-> "none", stage |-> "init"]}
        \cup [at : ChartIds, stage : {"init", "setOption"}]

noCharts ==
    [handle |-> [c \in ChartIds |-> 0],   \* cpuChart, memoryChart, podChart, clusterChart
     dom |-> [c \in ChartIds |-> 0],      \* the instance the library holds for each target
     live |-> {},                          \* the instances created and not disposed
     made |-> 0]                           \* the number of instances created

\* echarts.init(dom) followed by the assignment to the chart's handle: the
\* library returns the instance already attached to the target, if there is one
echartsInit(st, c) ==
    IF st.dom[c] # 0
    THEN [st EXCEPT !.handle[c] = st.dom[c]]
    ELSE LET inst == st.made + 1
         IN  [st EXCEPT !.handle[c] = inst, !.dom[c] = inst,
                        !.live = @ \cup {inst}, !.made = inst]

initChart_noTargetCheck(st, c, present) == echartsInit(st, c)

\* initCpuChart, initMemoryChart, initPodChart, initClusterChart: nothing
\* happens when the target element is absent
initChart(st, c, present) ==
    IF ~present THEN st ELSE echartsInit(st, c)

RECURSIVE initChartsFrom(_, _, _, _)
initChartsFrom(st, k, targets, fail) ==
    IF k > Len(ChartOrder)
    THEN st
    ELSE LET c == ChartOrder[k]
         IN  IF fail.at = c /\ c \in targets
             THEN IF fail.stage = "init" THEN st ELSE initChart(st, c, c \in targets)
             ELSE initChartsFrom(initChart(st, c, c \in targets), k + 1, targets, fail)

\* initCharts, up to the chart at which the library throws; targets are the
\* render targets document.getElementById finds
initCharts(st, targets, fail) == initChartsFrom(st, 1, targets, fail)

\* whether initCharts throws: the library is only called for a present target
Throws(targets, fail) == fail.at \in targets

\* the render targets in the document: those of the template while mounted
dashTargets == IF dashPhase = "mounted" THEN ChartIds ELSE {}

\* echarts instance.dispose() on every non-null handle
disposeCharts(st) ==
    LET gone == {st.handle[c] : c \in ChartIds} \ {0}
    IN  [st EXCEPT !.live = @ \ gone,
                   !.dom = [c \in ChartIds |-> IF st.dom[c] \in gone THEN 0 ELSE st.dom[c]]]

DashInit ==
    /\ dashPhase = "setup"
    /\ dashLoading = FALSE
    /\ timeRange = "1h"
    /\ autoRefresh = FALSE
    /\ statistics = initialStatistics
    /\ refreshTimer = 0
    /\ intervals = {}
    /\ intervalsMade = 0
    /\ pendingRefresh = 0
    /\ charts = noCharts
    /\ resizeListener = FALSE
    /\ resizeCalls = 0
    /\ refreshRejected = FALSE

\* onMounted
DashMounted(fail) ==
    /\ view = "dashboard"
    /\ UNCHANGED otherVars
    /\ UNCHANGED <<view, shellVars, listVars, tableVars, detailVars>>
    /\ dashPhase = "setup"
    /\ dashPhase' = "mounted"
    /\ charts' = initCharts(charts, ChartIds, fail)
    /\ resizeListener' = ~Throws(ChartIds, fail)
    /\ UNCHANGED <<dashLoading, timeRange, autoRefresh, statistics, refreshTimer,
                   intervals, intervalsMade, pendingRefresh, resizeCalls, refreshRejected>>

\* refreshData up to its await: loading is set and the 400 ms timer is started
refreshDataStart ==
    /\ pendingRefresh < MaxPending
    /\ dashLoading' = TRUE
    /\ pendingRefresh' = pendingRefresh + 1

\* the refresh button
RefreshClicked ==
    /\ view = "dashboard"
    /\ UNCHANGED otherVars
    /\ UNCHANGED <<view, shellVars, listVars, tableVars, detailVars>>
    /\ dashPhase = "mounted"
    /\ refreshDataStart
    /\ UNCHANGED <<dashPhase, timeRange, autoRefresh, statistics, refreshTimer,
                   intervals, intervalsMade, charts, resizeListener, resizeCalls, refreshRejected>>

\* the time-range select: v-model and @change="refreshData"
TimeRangeChanged(v) ==
    /\ view = "dashboard"
    /\ UNCHANGED otherVars
    /\ UNCHANGED <<view, shellVars, listVars, tableVars, detailVars>>
    /\ dashPhase = "mounted"
    /\ v # timeRange
    /\ timeRange' = v
    /\ refreshDataStart
    /\ UNCHANGED <<dashPhase, autoRefresh, statistics, refreshTimer,
                   intervals, intervalsMade, charts, resizeListener, resizeCalls, refreshRejected>>

\* a tick of an active interval timer runs refreshData
IntervalTick(id) ==
    /\ view = "dashboard"
    /\ UNCHANGED otherVars
    /\ UNCHANGED <<view, shellVars, listVars, tableVars, detailVars>>
    /\ id \in intervals
    /\ refreshDataStart
    /\ UNCHANGED <<dashPhase, timeRange, autoRefresh, statistics, refreshTimer,
                   intervals, intervalsMade, charts, resizeListener, resizeCalls, refreshRejected>>

\* refreshData after its await: the statistics, initCharts, and the finally
\* block; there is no catch, so a throw of initCharts rejects the promise
RefreshResumes(sample, fail) ==
    /\ view = "dashboard"
    /\ UNCHANGED otherVars
    /\ UNCHANGED <<view, shellVars, listVars, tableVars, detailVars>>
    /\ pendingRefresh > 0
    /\ pendingRefresh' = pendingRefresh - 1
    /\ statistics' = [statistics EXCEPT !.cpuUsage = sample.cpuUsage,
                                        !.memoryUsage = sample.memoryUsage,
                                        !.diskUsage = sample.diskUsage,
                                        !.networkTraffic = sample.networkTraffic]
    /\ charts' = initCharts(charts, dashTargets, fail)
    /\ dashLoading' = FALSE
    /\ refreshRejected' = (refreshRejected \/ Throws(dashTargets, fail))
    /\ UNCHANGED <<dashPhase, timeRange, autoRefresh, refreshTimer, intervals,
                   intervalsMade, resizeListener, resizeCalls>>

\* the auto-refresh switch: v-model and @change="handleAutoRefreshChange"
handleAutoRefreshChange(val) ==
    /\ view = "dashboard"
    /\ UNCHANGED otherVars
    /\ UNCHANGED <<view, shellVars, listVars, tableVars, detailVars>>
    /\ dashPhase = "mounted"
    /\ autoRefresh' = val
    /\ IF val
       THEN /\ intervalsMade < MaxIntervals
            /\ intervalsMade' = intervalsMade + 1
            /\ refreshTimer' = intervalsMade + 1
            /\ intervals' = intervals \cup {intervalsMade + 1}
       ELSE IF refreshTimer # 0
            THEN /\ intervals' = intervals \ {refreshTimer}
                 /\ refreshTimer' = 0
                 /\ UNCHANGED intervalsMade
            ELSE UNCHANGED <<refreshTimer, intervals, intervalsMade>>
    /\ UNCHANGED <<dashPhase, dashLoading, timeRange, statistics, pendingRefresh,
                   charts, resizeListener, resizeCalls, refreshRejected>>

\* a window resize event reaches handleResize
handleResize ==
    /\ view = "dashboard"
    /\ UNCHANGED otherVars
    /\ UNCHANGED <<view, shellVars, listVars, tableVars, detailVars>>
    /\ resizeListener
    /\ resizeCalls < MaxResizes
    /\ resizeCalls' = resizeCalls + 1
    /\ UNCHANGED <<dashPhase, dashLoading, timeRange, autoRefresh, statistics, refreshTimer,
                   intervals, intervalsMade, pendingRefresh, charts, resizeListener,
                   refreshRejected>>

\* onUnmounted
DashUnmounted ==
    /\ view = "dashboard"
    /\ UNCHANGED otherVars
    /\ UNCHANGED <<view, shellVars, listVars, tableVars, detailVars>>
    /\ dashPhase = "mounted"
    /\ dashPhase' = "unmounted"
    /\ intervals' = IF refreshTimer # 0 THEN intervals \ {refreshTimer} ELSE intervals
    /\ resizeListener' = FALSE
    /\ charts' = disposeCharts(charts)
    /\ UNCHANGED <<dashLoading, timeRange, autoRefresh, statistics, refreshTimer,
                   intervalsMade, pendingRefresh, resizeCalls, refreshRejected>>

DashNext ==
    \/ \E fail \in ChartFailures : DashMounted(fail)
    \/ RefreshClicked
    \/ \E v \in timeRangeOptions : TimeRangeChanged(v)
    \/ \E val \in BOOLEAN : handleAutoRefreshChange(val)
    \/ \E id \in intervals : IntervalTick(id)
    \/ \E sample \in UsageSamples, fail \in ChartFailures :
            /\ fail.at # "none" => dashPhase = "mounted"
            /\ RefreshResumes(sample, fail)
    \/ handleResize
    \/ DashUnmounted

(***************************************************************************)
(* The useTable composable.                                                *)
(***************************************************************************)
\* JavaScript's undefined as a form value: no text of the model equals it
Undefined == "<undefined>"

\* the texts the consumer's form writes to searchForm.name
TableTexts == {"", "a"}

\* the fetchApi collaborator's answer to a query: rows that name the query
\* they answer, and the number of records matching it
fetchApiResult(params) ==
    [list |-> <<[name |-> params.name, page |-> params.page]>>,
     total |-> IF params.name = "a" THEN 3 ELSE 45]

\* fetchData: const params = { page, pageSize, ...searchForm }
fetchParams ==
    [page |-> pagination.page, pageSize |-> pagination.pageSize, name |-> tblSearchForm.name]

\* the state useTable's body builds before it calls fetchData
TableSetup ==
    /\ tblLoading = FALSE
    /\ tblData = <<>>
    /\ tblTotal = 0
    /\ pagination = [page |-> 1, pageSize |-> 20]
    /\ tblSearchForm = [name |-> Undefined]

\* no fetchApi call has been made
TableIdle ==
    /\ TableSetup
    /\ requests = <<>>
    /\ lastParams = [page |-> 1, pageSize |-> 20, name |-> Undefined]
    /\ lastOutcome = "none"

\* useTable(options) has returned: with immediate, the first fetchData is in flight
TableInit ==
    \E immediate \in BOOLEAN :
        IF immediate
        THEN /\ tblLoading = TRUE
             /\ tblData = <<>>
             /\ tblTotal = 0
             /\ pagination = [page |-> 1, pageSize |-> 20]
             /\ tblSearchForm = [name |-> Undefined]
             /\ lastParams = [page |-> 1, pageSize |-> 20, name |-> Undefined]
             /\ requests = <<[params |-> lastParams, last |-> TRUE]>>
             /\ lastOutcome = "pending"
        ELSE TableIdle

\* fetchData up to its await: loading is set and fetchApi(params) is called
fetchDataStart(page, form) ==
    LET params == [page |-> page, pageSize |-> pagination.pageSize, name |-> form.name]
    IN  /\ Len(requests) < MaxInflight
        /\ tblLoading' = TRUE
        /\ requests' = Append([i \in 1..Len(requests) |-> [requests[i] EXCEPT !.last = FALSE]],
                              [params |-> params, last |-> TRUE])
        /\ lastParams' = params
        /\ lastOutcome' = "pending"

\* the consumer's form input bound to searchForm.name
TableInputName(text) ==
    /\ view = "table"
    /\ UNCHANGED otherVars
    /\ text # tblSearchForm.name
    /\ tblSearchForm' = [tblSearchForm EXCEPT !.name = text]
    /\ UNCHANGED <<view, shellVars, listVars, dashVars, detailVars>>
    /\ UNCHANGED <<tblLoading, tblData, tblTotal, pagination, requests, lastParams, lastOutcome>>

\* the consumer's pagination bound to pagination.page
TablePageChanged(p) ==
    /\ view = "table"
    /\ UNCHANGED otherVars
    /\ p # pagination.page
    /\ pagination' = [pagination EXCEPT !.page = p]
    /\ UNCHANGED <<view, shellVars, listVars, dashVars, detailVars>>
    /\ UNCHANGED <<tblLoading, tblData, tblTotal, tblSearchForm, requests, lastParams, lastOutcome>>

tableHandleSearch ==
    /\ view = "table"
    /\ UNCHANGED otherVars
    /\ pagination' = [pagination EXCEPT !.page = 1]
    /\ fetchDataStart(1, tblSearchForm)
    /\ UNCHANGED <<view, shellVars, listVars, dashVars, detailVars>>
    /\ UNCHANGED <<tblData, tblTotal, tblSearchForm>>

tableHandleReset ==
    /\ view = "table"
    /\ UNCHANGED otherVars
    /\ tblSearchForm' = [name |-> Undefined]
    /\ pagination' = [pagination EXCEPT !.page = 1]
    /\ fetchDataStart(1, [name |-> Undefined])
    /\ UNCHANGED <<view, shellVars, listVars, dashVars, detailVars>>
    /\ UNCHANGED <<tblData, tblTotal>>

\* handleRefresh, and fetchData called by the consumer
tableHandleRefresh ==
    /\ view = "table"
    /\ UNCHANGED otherVars
    /\ fetchDataStart(pagination.page, tblSearchForm)
    /\ UNCHANGED <<view, shellVars, listVars, dashVars, detailVars>>
    /\ UNCHANGED <<tblData, tblTotal, pagination, tblSearchForm>>

\* what is left of the pending calls when call i has been answered
Without(i) == [k \in 1..(Len(requests) - 1) |-> IF k < i THEN requests[k] ELSE requests[k + 1]]

FetchRejects_loadingStuck(i) ==
    /\ view = "table"
    /\ UNCHANGED otherVars
    /\ i \in 1..Len(requests)
    /\ requests' = Without(i)
    /\ lastOutcome' = IF requests[i].last THEN "rejected" ELSE lastOutcome
    /\ UNCHANGED <<view, shellVars, listVars, dashVars, detailVars>>
    /\ UNCHANGED <<tblLoading, tblData, tblTotal, pagination, tblSearchForm, lastParams>>

\* fetchData after its await, fetchApi resolved: the assignments and the finally block
FetchResolves(i) ==
    /\ view = "table"
    /\ UNCHANGED otherVars
    /\ i \in 1..Len(requests)
    /\ tblData' = fetchApiResult(requests[i].params).list
    /\ tblTotal' = fetchApiResult(requests[i].params).total
    /\ tblLoading' = FALSE
    /\ requests' = Without(i)
    /\ lastOutcome' = IF requests[i].last THEN "resolved" ELSE lastOutcome
    /\ UNCHANGED <<view, shellVars, listVars, dashVars, detailVars>>
    /\ UNCHANGED <<pagination, tblSearchForm, lastParams>>

\* fetchData after its await, fetchApi rejected: the catch and the finally block
FetchRejects(i) ==
    /\ view = "table"
    /\ UNCHANGED otherVars
    /\ i \in 1..Len(requests)
    /\ tblLoading' = FALSE
    /\ requests' = Without(i)
    /\ lastOutcome' = IF requests[i].last THEN "rejected" ELSE lastOutcome
    /\ UNCHANGED <<view, shellVars, listVars, dashVars, detailVars>>
    /\ UNCHANGED <<tblData, tblTotal, pagination, tblSearchForm, lastParams>>

TableNext ==
    \/ \E text \in TableTexts : TableInputName(text)
    \/ \E p \in 1..MaxTablePage : TablePageChanged(p)
    \/ tableHandleSearch
    \/ tableHandleReset
    \/ tableHandleRefresh
    \/ \E i \in 1..MaxInflight : FetchResolves(i)
    \/ \E i \in 1..MaxInflight : FetchRejects(i)

(***************************************************************************)
(* cluster/detail.vue.                                                     *)
(***************************************************************************)
\* the value of Array.prototype.find when no element matches
notFound == [undefined |-> TRUE]

cluster_orFirst ==
    LET hits == {i \in 1..Len(mockClusters) : idText(mockClusters[i].id) = routeId}
    IN  IF mockClusters = <<>>
        THEN notFound
        ELSE IF hits = {}
             THEN mockClusters[1]
             ELSE mockClusters[CHOOSE i \in hits : \A j \in hits : i <= j]

\* const cluster = computed(() => mockClusters.find(c => c.id === route.params.id))
cluster ==
    LET hits == {i \in 1..Len(mockClusters) : idText(mockClusters[i].id) = routeId}
    IN  IF hits = {}
        THEN notFound
        ELSE mockClusters[CHOOSE i \in hits : \A j \in hits : i <= j]

\* JavaScript values that are no strings of the program: undefined, and a
\* function inherited from Object.prototype
undefined == "<undefined>"

inheritedFunction == "<function>"

\* the property names every object literal inherits (two of them)
ObjectPrototypeKeys == {"constructor", "toString"}

\* const map of getStatusType
statusTypeMap ==
    [running |-> "success", stopped |-> "info", error |-> "danger", pending |-> "warning",
     Running |-> "success", Ready |-> "success", NotReady |-> "danger",
     Pending |-> "warning", Failed |-> "danger", CrashLoopBackOff |-> "danger",
     Succeeded |-> "", master |-> "warning", worker |-> ""]

\* obj[key]: the own property, else the inherited one, else undefined
propertyOf(obj, key) ==
    IF key \in DOMAIN obj
    THEN obj[key]
    ELSE IF key \in ObjectPrototypeKeys THEN inheritedFunction ELSE undefined

\* a || b: b when a is false in a condition, as '' and undefined are
logicalOr(a, b) == IF a \in {"", undefined} THEN b ELSE a

\* return map[status] || 'info'
getStatusType(status) == logicalOr(propertyOf(statusTypeMap, status), "info")

\* the status strings of the rows of mockNodes
NodeStatuses == {"Ready", "NotReady", "Unknown"}

\* the status strings of the rows of mockPods
PodStatuses == {"Running", "Pending", "Failed", "CrashLoopBackOff", "Succeeded",
                "constructor"}

\* the names of the el-tab-pane elements
TabNames == {"basic", "nodes", "pods", "metrics", "events"}

\* what the template renders: the el-result of v-if="!cluster" with its one
\* button, or the v-else branch with the header and the tabs; fields are the
\* record fields the rendered branch reads
detailTemplate ==
    IF cluster = notFound
    THEN [shown |-> "el-result", actions |-> {"handleBack"}, fields |-> {}]
    ELSE [shown |-> "detail",
          actions |-> {"handleBack", "handleRefresh", "tab-change"},
          fields |-> {"id", "name", "status", "nodeCount", "podCount",
                      "cpuUsage", "memoryUsage"}]

\* Number.prototype.toFixed(1) of a percentage in hundredths, in tenths
toFixed(x) == (x + 5) \div 10

\* let metricsChart = null, and the chart library's instances
noMetricsChart ==
    [handle |-> 0,     \* metricsChart
     dom |-> 0,        \* the instance the library holds for #detail-metrics-chart
     live |-> {},      \* the instances created and not disposed
     made |-> 0,       \* the number of instances created
     data |-> <<>>]    \* the values of the two gauges given to setOption

metricsDomPresent_afterUnmount == detailTemplate.shown = "detail"

\* document.getElementById('detail-metrics-chart') finds the element
metricsDomPresent == detailPhase = "mounted" /\ detailTemplate.shown = "detail"

initMetricsChart_noOption(st) ==
    IF activeTab # "metrics"
    THEN st
    ELSE IF ~metricsDomPresent \/ cluster = notFound
         THEN st
         ELSE LET inst == IF st.dom # 0 THEN st.dom ELSE st.made + 1
              IN  [st EXCEPT !.handle = inst, !.dom = inst, !.live = @ \cup {inst},
                             !.made = IF st.dom # 0 THEN st.made ELSE inst]

\* initMetricsChart: echarts.init returns the instance already attached to the
\* target, if there is one
initMetricsChart(st) ==
    IF activeTab # "metrics"
    THEN st
    ELSE IF ~metricsDomPresent \/ cluster = notFound
         THEN st
         ELSE LET c == cluster
                  inst == IF st.dom # 0 THEN st.dom ELSE st.made + 1
              IN  [handle |-> inst, dom |-> inst, live |-> st.live \cup {inst},
                   made |-> IF st.dom # 0 THEN st.made ELSE inst,
                   data |-> <<toFixed(c.cpuUsage), toFixed(c.memoryUsage)>>]

msgDetailRefreshed == [type |-> "success", text |-> "refreshed"]

\* the state the script of detail.vue builds, whatever the route
DetailInit ==
    /\ activeTab = "basic"
    /\ detailLoading = FALSE
    /\ detailTimers = 0
    /\ initTimers = 0
    /\ metricsChart = noMetricsChart
    /\ detailPhase = "setup"
    /\ detailResizeListener = FALSE

\* no el-tag of the detail view has been rendered
noStatusTag == [status |-> "", type |-> ""]

TagIdle == statusTag = noStatusTag

\* the detail view is not on screen
DetailIdle ==
    /\ routeId = <<>>
    /\ DetailInit

\* the detail view is on screen
DetailInteractive ==
    /\ view = "detail"
    /\ detailPhase = "mounted"
    /\ resolve(routerPath) = [name |-> "ClusterDetail", params |-> [id |-> routeId]]

\* onMounted
DetailMounted ==
    /\ view = "detail"
    /\ UNCHANGED otherVars
    /\ UNCHANGED <<view, shellVars, listVars, dashVars, tableVars>>
    /\ detailPhase = "setup"
    /\ detailPhase' = "mounted"
    /\ detailResizeListener' = TRUE
    /\ UNCHANGED <<routeId, activeTab, detailLoading, detailTimers, initTimers, metricsChart>>

\* the el-tabs: v-model="activeTab", then the @tab-change handler
TabChanged(tab) ==
    /\ DetailInteractive
    /\ UNCHANGED otherVars
    /\ UNCHANGED <<view, shellVars, listVars, dashVars, tableVars>>
    /\ "tab-change" \in detailTemplate.actions
    /\ tab # activeTab
    /\ activeTab' = tab
    /\ IF tab = "metrics"
       THEN /\ initTimers < MaxInitTimers
            /\ initTimers' = initTimers + 1
       ELSE UNCHANGED initTimers
    /\ UNCHANGED <<routeId, detailPhase, detailLoading, detailTimers, metricsChart,
                   detailResizeListener>>

\* a pending setTimeout(initMetricsChart, 100) callback runs
InitTimerFires ==
    /\ view = "detail"
    /\ UNCHANGED otherVars
    /\ UNCHANGED <<view, shellVars, listVars, dashVars, tableVars>>
    /\ initTimers > 0
    /\ initTimers' = initTimers - 1
    /\ metricsChart' = initMetricsChart(metricsChart)
    /\ UNCHANGED <<routeId, activeTab, detailPhase, detailLoading, detailTimers,
                   detailResizeListener>>

\* handleBack: the back button of the header, or the button of the el-result
detailHandleBack ==
    /\ DetailInteractive
    /\ UNCHANGED otherVars
    /\ UNCHANGED <<view, messages, listVars, dashVars, tableVars, detailVars>>
    /\ "handleBack" \in detailTemplate.actions
    /\ routerPath' = ListPath

\* handleRefresh of the detail view, up to its setTimeout
detailHandleRefresh ==
    /\ DetailInteractive
    /\ UNCHANGED otherVars
    /\ UNCHANGED <<view, shellVars, listVars, dashVars, tableVars>>
    /\ "handleRefresh" \in detailTemplate.actions
    /\ detailTimers < MaxDetailTimers
    /\ detailLoading' = TRUE
    /\ detailTimers' = detailTimers + 1
    /\ UNCHANGED <<routeId, activeTab, detailPhase, initTimers, metricsChart,
                   detailResizeListener>>

\* a pending 300 ms callback of handleRefresh runs
DetailTimerFires ==
    /\ view = "detail"
    /\ UNCHANGED otherVars
    /\ UNCHANGED <<view, routerPath, listVars, dashVars, tableVars>>
    /\ detailTimers > 0
    /\ detailTimers' = detailTimers - 1
    /\ detailLoading' = FALSE
    /\ ElMessage(msgDetailRefreshed)
    /\ UNCHANGED <<routeId, activeTab, detailPhase, initTimers, metricsChart,
                   detailResizeListener>>

\* onUnmounted: the router has left the detail route
DetailUnmounted ==
    /\ view = "detail"
    /\ UNCHANGED otherVars
    /\ UNCHANGED <<view, shellVars, listVars, dashVars, tableVars>>
    /\ detailPhase = "mounted"
    /\ detailPhase' = "unmounted"
    /\ detailResizeListener' = FALSE
    /\ metricsChart' = IF metricsChart.handle # 0
                       THEN [metricsChart EXCEPT !.live = @ \ {metricsChart.handle},
                                                 !.dom = 0]
                       ELSE metricsChart
    /\ UNCHANGED <<routeId, activeTab, detailLoading, detailTimers, initTimers>>

\* the statuses the template of the detail view hands to getStatusType: that of
\* the cluster in the header and the basic tab, those of the rows of the open tab
renderedStatuses ==
    IF cluster = notFound
    THEN {}
    ELSE {cluster.status}
         \cup (IF activeTab = "nodes" THEN NodeStatuses ELSE {})
         \cup (IF activeTab = "pods" THEN PodStatuses ELSE {})

\* <el-tag :type="getStatusType(...)">: the template renders one status tag
RenderStatusTag(status) ==
    /\ DetailInteractive
    /\ status \in renderedStatuses
    /\ statusTag' = [status |-> status, type |-> getStatusType(status)]
    /\ UNCHANGED <<view, shellVars, listVars, dashVars, tableVars, detailVars, scriptVars,
                   formVars>>

\* the detail view rendering its tabs
TagNext ==
    \/ DetailMounted
    \/ \E tab \in TabNames : TabChanged(tab)
    \/ \E status \in NodeStatuses \cup PodStatuses \cup statusOptions :
            RenderStatusTag(status)

\* vue-router resolves the location pushed by the list view and shows its route
RouterResolves ==
    /\ view = "list"
    /\ UNCHANGED otherVars
    /\ routerPath # ListPath
    /\ UNCHANGED <<shellVars, listVars, dashVars, tableVars>>
    /\ IF resolve(routerPath).name = "ClusterDetail"
       THEN /\ view' = "detail"
            /\ routeId' = resolve(routerPath).params.id
       ELSE /\ view' = "none"
            /\ UNCHANGED routeId
    /\ UNCHANGED <<activeTab, detailPhase, detailLoading, detailTimers, initTimers,
                   metricsChart, detailResizeListener>>

\* from the list view to the detail view and back
NavNext ==
    \/ \E k \in 1..Len(tableData) : handleView(tableData[k])
    \/ RouterResolves
    \/ DetailMounted
    \/ detailHandleBack
    \/ DetailUnmounted

DetailNext ==
    \/ DetailMounted
    \/ \E tab \in TabNames : TabChanged(tab)
    \/ InitTimerFires
    \/ detailHandleBack
    \/ detailHandleRefresh
    \/ DetailTimerFires
    \/ DetailUnmounted
    \/ MessageCloses

(***************************************************************************)
(* disk-usage.sh: the parsing of the arguments.  An argument is a sequence *)
(* of pieces, the '=' signs being pieces of their own.                     *)
(***************************************************************************)
\* the variables the case statement assigns
ShellVariables == {"REMOTE_MODE", "HOST", "USER", "PASSWORD", "PORT", "TIMEOUT", "KEY"}

\* the patterns --name=* of the case statement, in order, with their variable
AssignPatterns ==
    << <<"--host", "HOST">>, <<"--user", "USER">>, <<"--password", "PASSWORD">>,
       <<"--port", "PORT">>, <<"--timeout", "TIMEOUT">>, <<"--key", "KEY">> >>

\* ${1#*=}: the argument without its shortest prefix that ends in '='
afterEquals(word) ==
    IF indexOf(word, "=") = 0 THEN word ELSE SubSeq(word, indexOf(word, "=") + 1, Len(word))

\* the branch of `case $1 in` an argument takes: the variable it assigns and the
\* value, or no variable for the default branch
caseBranch(word) ==
    LET hits == {k \in 1..Len(AssignPatterns) :
                    /\ Len(word) >= 2
                    /\ word[1] = AssignPatterns[k][1]
                    /\ word[2] = "="}
    IN  IF word = <<"--remote">>
        THEN [var |-> "REMOTE_MODE", value |-> <<"1">>]
        ELSE IF hits # {}
             THEN [var |-> AssignPatterns[CHOOSE k \in hits : TRUE][2],
                   value |-> afterEquals(word)]
             ELSE [var |-> "", value |-> <<>>]

\* shift: drops $1; with no parameter left it fails and changes nothing
shift(params) == IF params = <<>> THEN params ELSE Tail(params)

\* the arguments the script is started with
ArgWords ==
    { <<"--remote">>, <<"--host", "=", "h">>, <<"--user", "=", "u">>,
      <<"--password", "=", "p", "=", "q">>, <<"--port", "=", "2222">>,
      <<"--timeout", "=", "5">>, <<"--key", "=", "k">>, <<"/data">> }

ArgLists == UNION {[1..n -> ArgWords] : n \in 0..MaxArgs}

\* the script is not running
ScriptIdle ==
    /\ argv = <<>>
    /\ positional = <<>>
    /\ shellEnv = [v \in ShellVariables |-> <<>>]
    /\ scriptPc = "idle"

\* the script is started: no variable of the case statement is set
ScriptInit ==
    /\ argv \in ArgLists
    /\ positional = argv
    /\ shellEnv = [v \in ShellVariables |-> <<>>]
    /\ scriptPc = "parsing"

\* one iteration of `while [[ $# -gt 0 ]]`: the case statement, then shift
ParseArgument ==
    /\ view = "script"
    /\ scriptPc = "parsing"
    /\ positional # <<>>
    /\ LET branch == caseBranch(positional[1])
       IN  IF branch.var = ""
           THEN /\ positional' = shift(shift(positional))
                /\ UNCHANGED shellEnv
           ELSE /\ positional' = shift(positional)
                /\ shellEnv' = [shellEnv EXCEPT ![branch.var] = branch.value]
    /\ UNCHANGED <<argv, scriptPc>>
    /\ UNCHANGED <<view, shellVars, listVars, dashVars, tableVars, detailVars, tagVars,
                   formVars>>

\* the loop ends; if [ "$REMOTE_MODE" = "1" ] hands over to remote-exec.sh
RemoteDispatch ==
    /\ view = "script"
    /\ scriptPc = "parsing"
    /\ positional = <<>>
    /\ scriptPc' = IF shellEnv["REMOTE_MODE"] = <<"1">> THEN "remote" ELSE "local"
    /\ UNCHANGED <<argv, positional, shellEnv>>
    /\ UNCHANGED <<view, shellVars, listVars, dashVars, tableVars, detailVars, tagVars,
                   formVars>>

ScriptNext == ParseArgument \/ RemoteDispatch

(***************************************************************************)
(* useForm (component guide).                                              *)
(***************************************************************************)
\* no handleSubmit call has been made
noSubmit ==
    [pc |-> "idle", valid |-> FALSE, isEdit |-> FALSE, api |-> "none",
     settled |-> "none", onSuccess |-> 0]

\* no form is on screen
FormIdle ==
    /\ formOptions = [createApi |-> FALSE, updateApi |-> FALSE, onSuccess |-> FALSE]
    /\ formRef = FALSE
    /\ isEdit = FALSE
    /\ formLoading = FALSE
    /\ submit = noSubmit

\* the options useForm is called with: which of the optional members are given
FormOptions == [createApi : BOOLEAN, updateApi : BOOLEAN, onSuccess : BOOLEAN]

\* the notifications of handleSubmit
msgUpdated == [type |-> "success", text |-> "updated"]

msgCreated == [type |-> "success", text |-> "created"]

\* a form built on useForm is set up
FormInit ==
    /\ formOptions \in FormOptions
    /\ formRef = FALSE
    /\ isEdit = FALSE
    /\ formLoading = FALSE
    /\ submit = noSubmit

\* the el-form bound to formRef is mounted
FormMounted ==
    /\ view = "form"
    /\ ~formRef
    /\ formRef' = TRUE
    /\ UNCHANGED <<formOptions, isEdit, formLoading, submit>>
    /\ UNCHANGED <<view, shellVars, listVars, dashVars, tableVars, detailVars, tagVars,
                   scriptVars>>

\* the consumer writes isEdit.value
SetIsEdit(mode) ==
    /\ view = "form"
    /\ isEdit # mode
    /\ isEdit' = mode
    /\ UNCHANGED <<formOptions, formRef, formLoading, submit>>
    /\ UNCHANGED <<view, shellVars, listVars, dashVars, tableVars, detailVars, tagVars,
                   scriptVars>>

\* handleSubmit up to the await of validate(): without a formRef validate
\* returns false and handleSubmit returns
handleSubmit ==
    /\ view = "form"
    /\ submit.pc \in {"idle", "done"}
    /\ submit' = [noSubmit EXCEPT !.pc = IF formRef THEN "validating" ELSE "done"]
    /\ UNCHANGED <<formOptions, formRef, isEdit, formLoading>>
    /\ UNCHANGED <<view, shellVars, listVars, dashVars, tableVars, detailVars, tagVars,
                   scriptVars>>

\* the API the branches of handleSubmit call: updateApi in edit mode if given,
\* else createApi if given, else none
chosenApi(mode, options) ==
    IF mode /\ options.updateApi
    THEN "updateApi"
    ELSE IF options.createApi THEN "createApi" ELSE "none"

\* formRef.validate() settles and handleSubmit runs up to the await of the API;
\* with no API to call it runs to its end
ValidateSettles(ok) ==
    /\ view = "form"
    /\ submit.pc = "validating"
    /\ IF ~ok
       THEN /\ submit' = [submit EXCEPT !.pc = "done"]
            /\ UNCHANGED formLoading
       ELSE IF chosenApi(isEdit, formOptions) # "none"
            THEN /\ submit' = [submit EXCEPT !.pc = "calling", !.valid = TRUE,
                                             !.isEdit = isEdit,
                                             !.api = chosenApi(isEdit, formOptions)]
                 /\ formLoading' = TRUE
            ELSE /\ submit' = [submit EXCEPT !.pc = "done", !.valid = TRUE,
                                             !.isEdit = isEdit,
                                             !.onSuccess = IF formOptions.onSuccess
                                                           THEN @ + 1 ELSE @]
                 /\ formLoading' = FALSE
    /\ UNCHANGED <<formOptions, formRef, isEdit>>
    /\ UNCHANGED <<view, shellVars, listVars, dashVars, tableVars, detailVars, tagVars,
                   scriptVars>>

\* the awaited API call settles: the message and onSuccess, or the catch; finally
ApiSettles(ok) ==
    /\ view = "form"
    /\ submit.pc = "calling"
    /\ IF ok
       THEN /\ ElMessage(IF submit.api = "updateApi" THEN msgUpdated ELSE msgCreated)
            /\ submit' = [submit EXCEPT !.pc = "done", !.settled = "resolved",
                                        !.onSuccess = IF formOptions.onSuccess
                                                      THEN @ + 1 ELSE @]
       ELSE /\ UNCHANGED messages
            /\ submit' = [submit EXCEPT !.pc = "done", !.settled = "rejected"]
    /\ formLoading' = FALSE
    /\ UNCHANGED <<formOptions, formRef, isEdit>>
    /\ UNCHANGED <<view, routerPath, listVars, dashVars, tableVars, detailVars, tagVars,
                   scriptVars>>

FormNext ==
    \/ FormMounted
    \/ \E mode \in BOOLEAN : SetIsEdit(mode)
    \/ handleSubmit
    \/ \E ok \in BOOLEAN : ValidateSettles(ok)
    \/ \E ok \in BOOLEAN : ApiSettles(ok)
    \/ MessageCloses

\* what is outside the cluster pages is at rest
OthersIdle == TagIdle /\ ScriptIdle /\ FormIdle

(***************************************************************************)
(* Specifications: one per view, and one for the two views that fetch.     *)
(* The list view has two: its form and pagination over collections of any  *)
(* size, and the whole view over the small collections.                    *)
(***************************************************************************)
\* the list view
Init ==
    /\ view = "list"
    /\ mockClusters \in Collections
    /\ ShellInit /\ ListInit /\ DashInit /\ TableIdle /\ DetailIdle /\ OthersIdle

Next == ListNext

Spec == Init /\ [][Next]_vars

\* the list view, the user picking only pages that exist when picked
SpecListOffered == Init /\ [][ListOfferedNext]_vars

\* the dashboard view, over the small collections
DashSpecInit ==
    /\ view = "dashboard"
    /\ mockClusters \in {c \in Collections : Len(c) <= MaxDashRecords}
    /\ ShellInit /\ ListInit /\ DashInit /\ TableIdle /\ DetailIdle /\ OthersIdle

SpecDash == DashSpecInit /\ [][DashNext]_vars

\* a view built on useTable
TableSpecInit ==
    /\ view = "table"
    /\ mockClusters = <<>>
    /\ ShellInit /\ ListInit /\ DashInit /\ TableInit /\ DetailIdle /\ OthersIdle

SpecTable == TableSpecInit /\ [][TableNext]_vars

\* the views that fetch data: the dashboard or a view built on useTable
FetchNext == DashNext \/ TableNext

SpecFetch == (DashSpecInit \/ TableSpecInit) /\ [][FetchNext]_vars

\* the small collections: the first record is running, the second of any kind
OpsCollections ==
    {c \in Collections : Len(c) <= MaxOpsRecords /\
        (c # <<>> => (c[1].name = <<"b">> /\ c[1].status = "running"))}

\* the whole list view, over the small collections
ListOpsInit ==
    /\ view = "list"
    /\ mockClusters \in OpsCollections
    /\ ShellInit /\ ListInit /\ DashInit /\ TableIdle /\ DetailIdle /\ OthersIdle

SpecListOps == ListOpsInit /\ [][ListOpsNext]_vars

\* the ids a detail route is opened with: those of the records, and two of none
RouteIds == {idText(i) : i \in 0..(MaxDetailRecords + 1)}

\* the detail view, opened on /cluster/detail/:id
DetailSpecInit ==
    /\ view = "detail"
    /\ mockClusters \in {c \in Collections : Len(c) <= MaxDetailRecords}
    /\ routeId \in RouteIds
    /\ messages = <<>>
    /\ routerPath = detailLocation(routeId)
    /\ ListInit /\ DashInit /\ TableIdle /\ DetailInit /\ OthersIdle

SpecDetail == DetailSpecInit /\ [][DetailNext]_vars

\* the numbers of the ids of the navigated collections
NavIds == {1, 2} \cup {MaxRecords + k : k \in 1..Len(ReservedIdTexts)}

\* the collections navigated from: records of distinct ids, in any order
NavCollections ==
    { [i \in 1..n |-> ClusterInfo(ids[i], IF i % 2 = 1 THEN odd ELSE even)] :
        n \in 0..MaxNavRecords,
        ids \in {f \in [1..MaxNavRecords -> NavIds] :
                   \A i, j \in 1..MaxNavRecords : i # j => f[i] # f[j]},
        odd \in ClusterKinds, even \in ClusterKinds }

\* the list view and the detail view it opens
NavInit ==
    /\ view = "list"
    /\ mockClusters \in NavCollections
    /\ ShellInit /\ ListInit /\ DashInit /\ TableIdle /\ DetailIdle /\ OthersIdle

SpecNav == NavInit /\ [][NavNext]_vars

\* a run of disk-usage.sh
ScriptSpecInit ==
    /\ view = "script"
    /\ mockClusters = <<>>
    /\ ShellInit /\ ListInit /\ DashInit /\ TableIdle /\ DetailIdle
    /\ TagIdle /\ ScriptInit /\ FormIdle

SpecScript == ScriptSpecInit /\ [][ScriptNext]_vars

\* a form built on useForm
FormSpecInit ==
    /\ view = "form"
    /\ mockClusters = <<>>
    /\ ShellInit /\ ListInit /\ DashInit /\ TableIdle /\ DetailIdle
    /\ TagIdle /\ ScriptIdle /\ FormInit

SpecForm == FormSpecInit /\ [][FormNext]_vars

\* the detail view and its status tags
SpecTag == DetailSpecInit /\ [][TagNext]_vars

(***************************************************************************)
(* Claims about the list view.                                             *)
(***************************************************************************)
\* the positions of the collection whose record passes both filter predicates
PassingPositions ==
    { i \in 1..Len(mockClusters) :
        /\ \/ searchForm.name = <<>>
           \/ \E k \in 0..(Len(mockClusters[i].name) - Len(searchForm.name)) :
                \A j \in 1..Len(searchForm.name) :
                    lowerChar(mockClusters[i].name[k + j]) = lowerChar(searchForm.name[j])
        /\ \/ searchForm.status = ""
           \/ mockClusters[i].status = searchForm.status }

\* C1: a record is in filteredData iff (the name filter is empty or its name
\* contains the filter text case-insensitively) and (the status filter is empty
\* or its status equals it); filteredData keeps the collection's order.
\* (The record at position i of the collection has id i.)
C1_FilterIff ==
    LET fd == filteredData
    IN  /\ Len(fd) = Cardinality(PassingPositions)
        /\ \A k \in 1..Len(fd) :
            /\ fd[k].id \in PassingPositions
            /\ fd[k] = mockClusters[fd[k].id]
            /\ (k < Len(fd)) => (fd[k].id < fd[k + 1].id)

\* both filters are set; some records pass, and a record that satisfies
\* exactly one of the two predicates is dropped
C1_Witness ==
    /\ searchForm.name # <<>>
    /\ searchForm.status # ""
    /\ filteredData # <<>>
    /\ \E i \in 1..Len(mockClusters) :
        /\ i \notin PassingPositions
        /\ \/ mockClusters[i].status = searchForm.status
           \/ nameMatches(mockClusters[i], searchForm.name)
    /\ \E i \in PassingPositions : mockClusters[i].name # searchForm.name

RECURSIVE TraversalLength(_)
\* the sum of the page lengths over pages p, p+1, ... until an empty page
TraversalLength(p) ==
    IF visiblePage(p, pageSize) = <<>>
    THEN 0
    ELSE Len(visiblePage(p, pageSize)) + TraversalLength(p + 1)

\* C2: the visible page has at most pageSize records, and the page lengths
\* over pages 1, 2, 3, ... until an empty page add up to total, the number of
\* records passing the filter.
C2_PageLengths ==
    /\ Len(tableData) <= pageSize
    /\ TraversalLength(1) = total
    /\ total = Cardinality(PassingPositions)

\* a filtered list of three pages, seen from its last, partial page
C2_Witness ==
    /\ searchForm.status # ""
    /\ total < Len(mockClusters)
    /\ total > 2 * pageSize
    /\ currentPage = 3
    /\ Len(tableData) \in 1..(pageSize - 1)

\* C4: the visible page is the filtered list's elements at the indexes
\* [(page-1)*pageSize, (page-1)*pageSize + pageSize), clamped to the list end;
\* an out-of-range page is empty.
C4_SliceWindow ==
    LET start == (currentPage - 1) * pageSize
        n == Max(0, Min(pageSize, total - start))
        td == tableData
        fd == filteredData
    IN  /\ Len(td) = n
        /\ \A k \in 1..n : td[k] = fd[start + k]
        /\ (start >= total) => (td = <<>>)

\* 25 records, page size 10, no filter: page 4 is empty, and pages 1 and 3
\* hold 10 and 5 records
C4_Witness ==
    /\ Len(mockClusters) = 25
    /\ searchForm = [name |-> <<>>, status |-> ""]
    /\ pageSize = 10
    /\ currentPage = 4
    /\ tableData = <<>>
    /\ Len(visiblePage(1, pageSize)) = 10
    /\ Len(visiblePage(3, pageSize)) = 5

\* C3: every change of the filter criteria leaves the view on page 1.
C3_FilterChangeResetsPage ==
    [][searchForm' # searchForm => currentPage' = 1]_vars

(***************************************************************************)
(* Claims about the dashboard.                                             *)
(***************************************************************************)
\* C5: after any sequence of handleAutoRefreshChange calls at most one
\* auto-refresh interval timer is active.
C5_AtMostOneInterval == Cardinality(intervals) <= 1

\* C6: once handleAutoRefreshChange(false) has run, and until auto-refresh is
\* enabled again, no auto-refresh interval timer is active.
C6_DisabledMeansNoInterval == (~autoRefresh) => (intervals = {})

\* a step in which a timer callback of the view runs or a chart is resized:
\* an interval tick, the continuation of a suspended refreshData, handleResize
DashCallbackStep ==
    \/ \E id \in intervals : IntervalTick(id)
    \/ \E sample \in UsageSamples, fail \in ChartFailures : RefreshResumes(sample, fail)
    \/ handleResize

\* C7: after the dashboard is unmounted no timer callback of the view runs
\* and no chart is resized.
C7_NoCallbackAfterUnmount ==
    [][(dashPhase = "unmounted") => ~DashCallbackStep]_vars

\* C8: when the dashboard has exited, all its timers are cancelled and every
\* chart instance it obtained has been disposed.
C8_TeardownReleasesAll ==
    (dashPhase = "unmounted") =>
        /\ intervals = {}
        /\ pendingRefresh = 0
        /\ charts.live = {}

(***************************************************************************)
(* Claims about the data-fetch operations.                                 *)
(***************************************************************************)
\* C9: when every fetchApi call has been answered and the call issued last
\* resolved, tableData and total are the answer to that last call.
C9_LastRequestWins ==
    (requests = <<>> /\ lastOutcome = "resolved") =>
        /\ tblData = fetchApiResult(lastParams).list
        /\ tblTotal = fetchApiResult(lastParams).total

\* C10: refreshData and fetchData set loading when they start, and loading is
\* false whenever every started operation has resolved or thrown.
C10_LoadingReset ==
    /\ [](pendingRefresh = 0 => ~dashLoading)
    /\ [](requests = <<>> => ~tblLoading)
    /\ [][pendingRefresh' > pendingRefresh => dashLoading']_vars
    /\ [][Len(requests') > Len(requests) => tblLoading']_vars

\* two fetchData calls overlapped, the last of them was rejected, and every
\* call has been answered
C10_Witness ==
    /\ view = "table"
    /\ lastOutcome = "rejected"
    /\ lastParams.name = "a"
    /\ tblData # <<>>
    /\ requests = <<>>
    /\ ~tblLoading

(***************************************************************************)
(* Claims about the selection and the row actions of the list view.        *)
(***************************************************************************)
\* the step shows one more notification, msg
Shown(msg) ==
    /\ Len(messages') = Len(messages) + 1
    /\ messages' = Append(messages, msg)

\* the list state a handler could write besides the dialog and the messages
listFrame == <<mockClusters, searchForm, currentPage, pageSize, listLoading, listTimers,
               selectedRows, routerPath>>

\* C12: handleBatchDelete with an empty selection shows exactly one warning
\* and returns: no confirmation dialog opens, and the selection, the
\* collection, the filter and the page are unchanged.
C12_EmptyBatchDeleteWarns ==
    [][(handleBatchDelete /\ selectedRows = {}) =>
            /\ Shown(msgSelectRows)
            /\ dialog' = NoDialog
            /\ UNCHANGED <<selectedRows, mockClusters, searchForm, currentPage, pageSize>>]_vars

\* the warning is on screen, with nothing selected, a filter set and page 2
C12_Witness ==
    /\ messages = <<msgSelectRows>>
    /\ selectedRows = {}
    /\ dialog = NoDialog
    /\ mockClusters # <<>>
    /\ searchForm.name # <<>>
    /\ currentPage = 2

\* C13: the success message of handleDelete and of handleBatchDelete (the
\* simulated deletion) is only shown by the step in which the user confirms
\* the dialog that handler opened; a declined dialog closes without a
\* message and without a change of the view's state.
C13_ConfirmBeforeDelete ==
    [][/\ Shown(msgDeleted) => (dialog.kind = "delete" /\ dialog' = NoDialog)
       /\ Shown(msgBatchDeleted) => (dialog.kind = "batch" /\ dialog' = NoDialog)
       /\ (messages' # messages /\ dialog # NoDialog /\ dialog' = NoDialog) =>
                \/ Shown(msgDeleted)
                \/ Shown(msgBatchDeleted)
       /\ ConfirmDeclined => UNCHANGED <<messages, listFrame>>]_vars

\* the delete of a row was confirmed while another row was selected
C13_Witness ==
    /\ messages = <<msgDeleted>>
    /\ dialog = NoDialog
    /\ selectedRows # {}

\* C14: after a successful batch delete selectedRows is empty.
C14_BatchDeleteClearsSelection ==
    [][Shown(msgBatchDeleted) => (selectedRows' = {})]_vars

\* C15: after a successful delete of record R, R is no longer in
\* filteredData and total has decreased by one.
C15_DeletedRowDisappears ==
    [][Shown(msgDeleted) =>
            /\ dialog.row \notin RowIds(filteredData')
            /\ total' = total - 1]_vars

\* C16: no step of the list view changes the resource collection, so total
\* under the empty filter is constant.
C16_CollectionUnchanged ==
    [][mockClusters' = mockClusters]_vars

\* a batch delete was confirmed and the two records are still in the list
C16_Witness ==
    /\ messages = <<msgBatchDeleted>>
    /\ Len(mockClusters) = 2
    /\ searchForm = [name |-> <<>>, status |-> ""]
    /\ total = 2

\* C17: after handleSelectionChange(S) the tracked selection is exactly S and
\* the selected count is the size of S: the batch delete button is disabled
\* iff S is empty.
C17_SelectionMirrors ==
    [][\A S \in SUBSET RowIds(tableData) :
            handleSelectionChange(S) =>
                /\ selectedRows' = S
                /\ Cardinality(selectedRows') = Cardinality(S)
                /\ batchDeleteDisabled' <=> (S = {})]_vars

\* two rows are selected
C17_Witness ==
    /\ selectedRows = {1, 2}
    /\ ~batchDeleteDisabled
    /\ dialog = NoDialog

\* a step of the search form or of the pagination
FilterOrPageStep ==
    \/ \E text \in OpsTexts : InputName(text)
    \/ \E s \in OpsStatuses : SelectStatus(s)
    \/ handleSearch
    \/ handleReset
    \/ \E p \in OpsPages : UpdateCurrentPage(p)
    \/ \E s \in OpsPageSizes : UpdatePageSize(s)

\* C18: handleSearch, handleReset, the edits of the form, the page and the
\* page-size changes leave selectedRows unchanged, and the batch delete
\* dialog is opened for all of selectedRows.
C18_SelectionNotPruned ==
    /\ [][FilterOrPageStep => (selectedRows' = selectedRows)]_vars
    /\ [](dialog.kind = "batch" => dialog.count = Cardinality(selectedRows))

\* the batch delete dialog is open for a selected record that the filter
\* excludes and that is not on the visible page
C18_Witness ==
    /\ dialog.kind = "batch"
    /\ \E id \in selectedRows :
            /\ id \notin RowIds(filteredData)
            /\ id \notin RowIds(tableData)

\* C26: when only pages that exist are selected, total > 0 implies that the
\* visible page is not empty.
C26_NoEmptyPageWhileMatching == (total > 0) => (tableData # <<>>)

MatchingPositions == {i \in 1..Len(mockClusters) : idText(mockClusters[i].id) = routeId}

\* C19: the resolver yields the record whose id is the requested id when
\* there is one, and else the not-found value; in the not-found state the
\* view renders only the empty state, whose single action navigates back to
\* /cluster, and reads no field of a record.
C19_ResolverFindsOrNotFound ==
    /\ [](IF MatchingPositions # {}
          THEN /\ cluster # notFound
               /\ idText(cluster.id) = routeId
               /\ \E i \in MatchingPositions : cluster = mockClusters[i]
          ELSE /\ cluster = notFound
               /\ detailTemplate.shown = "el-result"
               /\ detailTemplate.actions = {"handleBack"}
               /\ detailTemplate.fields = {}
               /\ activeTab = "basic"
               /\ metricsChart = noMetricsChart)
    /\ [][detailHandleBack => (routerPath' = ListPath)]_vars

\* a route whose id no record of a non-empty collection has, after the button
\* of the empty state was clicked
C19_Witness ==
    /\ mockClusters # <<>>
    /\ MatchingPositions = {}
    /\ cluster = notFound
    /\ routerPath = ListPath
    /\ detailPhase = "mounted"

\* C20: every switch to the metrics tab schedules initMetricsChart; whenever
\* the view is mounted on a found record, the metrics tab is active and no
\* scheduled initMetricsChart is pending (the tab has been active for the
\* whole delay), the gauge chart instance exists and shows the record's
\* cpuUsage and memoryUsage; a callback that runs while another tab is active
\* changes nothing.
C20_MetricsChartInitialised ==
    /\ []((/\ detailPhase = "mounted"
           /\ cluster # notFound
           /\ activeTab = "metrics"
           /\ initTimers = 0) =>
                /\ metricsChart.handle # 0
                /\ metricsChart.handle \in metricsChart.live
                /\ metricsChart.data = <<toFixed(cluster.cpuUsage),
                                         toFixed(cluster.memoryUsage)>>)
    /\ [][(activeTab # "metrics" /\ activeTab' = "metrics") =>
                (initTimers' = initTimers + 1)]_vars
    /\ [][(InitTimerFires /\ activeTab # "metrics") =>
                (metricsChart' = metricsChart)]_vars

\* the metrics tab of the second record is active, its callback has run and
\* the gauges show 100.0 and 81.5
C20_Witness ==
    /\ detailPhase = "mounted"
    /\ routeId = idText(2)
    /\ activeTab = "metrics"
    /\ initTimers = 0
    /\ metricsChart.handle \in metricsChart.live
    /\ metricsChart.data = <<1000, 815>>

\* C21: after onUnmounted of the detail view no gauge chart instance the
\* view created remains undisposed, however often the metrics tab was opened,
\* and an initMetricsChart callback that runs after the teardown creates none.
C21_DetailTeardownReleasesCharts ==
    /\ []((detailPhase = "unmounted") => (metricsChart.live = {}))
    /\ [][(detailPhase = "unmounted" /\ InitTimerFires) =>
                (metricsChart' = metricsChart)]_vars

\* the view of a found record was torn down with the metrics tab active and
\* its initMetricsChart pending: the callback has run since and built nothing
C21_Witness ==
    /\ detailPhase = "unmounted"
    /\ cluster # notFound
    /\ activeTab = "metrics"
    /\ initTimers = 0
    /\ metricsChart.handle = 0

(***************************************************************************)
(* More claims about the dashboard.                                        *)
(***************************************************************************)
\* the sum of a numeric field over the records of the collection
FieldTotal(field) ==
    LET partial[i \in 0..Len(mockClusters)] ==
            IF i = 0 THEN 0 ELSE partial[i - 1] + mockClusters[i][field]
    IN  partial[Len(mockClusters)]

noFailure == [at |-> "none", stage |-> "init"]

\* C23: initialising a chart whose render target is absent is a no-op: it
\* creates no instance, raises no error and leaves the chart's handle as it
\* was, and initCharts still initialises the charts whose target is present.
C23_AbsentTargetIsNoOp ==
    /\ \A c \in ChartIds : initChart(charts, c, FALSE) = charts
    /\ \A targets \in SUBSET ChartIds :
            LET st == initCharts(charts, targets, noFailure)
                created == {c \in targets : charts.dom[c] = 0}
            IN  /\ ~Throws(targets, noFailure)
                /\ \A c \in ChartIds \ targets :
                        /\ st.handle[c] = charts.handle[c]
                        /\ st.dom[c] = charts.dom[c]
                /\ \A c \in targets :
                        /\ st.handle[c] # 0
                        /\ st.handle[c] = st.dom[c]
                        /\ st.handle[c] \in st.live
                /\ st.made = charts.made + Cardinality(created)
                /\ Cardinality(st.live) = Cardinality(charts.live) + Cardinality(created)

\* no chart was built at mount (the library threw at the first), the view was
\* left with a refreshData suspended, and its initCharts has run since, with
\* no target in the document: new utilisation numbers, no chart, no error
C23_Witness ==
    /\ dashPhase = "unmounted"
    /\ pendingRefresh = 0
    /\ statistics.cpuUsage # 685
    /\ ~refreshRejected
    /\ \A c \in ChartIds : charts.handle[c] = 0
    /\ charts.made = 0

\* C25: loading is true in every state in which a refresh is in flight, also
\* when refreshes overlap: on the dashboard (refreshData), in the list view
\* (handleSearch, handleRefresh) and in useTable (fetchData).
C25_LoadingWhileInFlight ==
    /\ (pendingRefresh > 0) => dashLoading
    /\ (listTimers # <<>>) => listLoading
    /\ (requests # <<>>) => tblLoading

(***************************************************************************)
(* Claims about the navigation from the list view to the detail view.      *)
(***************************************************************************)
\* C27: for every record R of a collection of unique ids, handleView(R) pushes
\* the path /cluster/detail/<R.id>, the path matches the ClusterDetail route
\* with params.id equal to R.id, and the detail resolver then yields exactly R.
C27_NavigationRoundTrip ==
    /\ [][\A k \in 1..Len(mockClusters) :
            handleView(mockClusters[k]) =>
                /\ routerPath' = DetailPrefix \o idText(mockClusters[k].id)
                /\ resolve(routerPath').name = "ClusterDetail"
                /\ resolve(routerPath').params.id = idText(mockClusters[k].id)]_vars
    /\ [][\A k \in 1..Len(mockClusters) :
            (RouterResolves /\ routerPath = DetailPath(mockClusters[k].id)) =>
                /\ view' = "detail"
                /\ cluster' = mockClusters[k]]_vars

(***************************************************************************)
(* Claims about the status tags.                                           *)
(***************************************************************************)
\* C28: the detail view's getStatusType returns, for every key of its lookup
\* table, exactly the tag type the table maps it to, and 'info' for every
\* string that is not a key of the table.
C28_StatusTypeIsTableLookup ==
    (statusTag # noStatusTag) =>
        statusTag.type = IF statusTag.status \in DOMAIN statusTypeMap
                         THEN statusTypeMap[statusTag.status]
                         ELSE "info"

(***************************************************************************)
(* Claims about disk-usage.sh.                                             *)
(***************************************************************************)
\* the options the skill documents (--remote, --host=, --user=, --password=,
\* --port=, --timeout=), by the variable they set
DocumentedVariables == {"REMOTE_MODE", "HOST", "USER", "PASSWORD", "PORT", "TIMEOUT"}

\* C29: when the argument loop of disk-usage.sh has ended, every documented
\* option present anywhere in the argument list has set its variable, also
\* when unrecognised arguments precede it.
C29_EveryOptionTakesEffect ==
    (scriptPc \in {"remote", "local"}) =>
        \A i \in 1..Len(argv) :
            (caseBranch(argv[i]).var \in DocumentedVariables) =>
                \E j \in 1..Len(argv) :
                    /\ caseBranch(argv[j]).var = caseBranch(argv[i]).var
                    /\ shellEnv[caseBranch(argv[i]).var] = caseBranch(argv[j]).value

(***************************************************************************)
(* Claims about useForm.                                                   *)
(***************************************************************************)
\* C30: handleSubmit calls an API only after validation succeeded, and the one
\* the mode chooses: updateApi only in edit mode and createApi only in create
\* mode, the API of the mode being the one called when the options hold it;
\* onSuccess runs only after the called API resolved.
C30_SubmitCallsTheApiOfTheMode ==
    /\ (submit.api # "none") => submit.valid
    /\ (submit.api = "updateApi") => submit.isEdit
    /\ (submit.api = "createApi") => ~submit.isEdit
    /\ (submit.valid /\ submit.isEdit /\ formOptions.updateApi) => (submit.api = "updateApi")
    /\ (submit.valid /\ ~submit.isEdit /\ formOptions.createApi) => (submit.api = "createApi")
    /\ (submit.onSuccess > 0) => (submit.api # "none" /\ submit.settled = "resolved")
    /\ submit.onSuccess <= 1

(***************************************************************************)
(* Claims about error handling.                                            *)
(***************************************************************************)
\* C11: every failure of a collaborator call inside a view-model operation is
\* caught inside that operation, so the operation's promise never rejects;
\* here for the chart initialisation inside the dashboard's refreshData.
C11_FailuresCaught == ~refreshRejected

====
